---- MODULE Spec2Model ----
(***************************************************************************)
(* A circular genome with transposable elements (src/src/genome.py).       *)
(*                                                                         *)
(* The two implementations of the Genome interface:                        *)
(*   ListGenome        genome_list (markers) + TE_dict (id -> span | None) *)
(*   LinkedListGenome  a heap of Link_element nodes reached from head      *)
(* Every action is one call of the interface.                              *)
(*                                                                         *)
(* Python values: None is the empty tuple, a span [start, end] is the      *)
(* tuple <<start, end>>, list indices are 0-based as in the source.        *)
(* A call's outcome is [kind, val, exc]: kind "return" with val the        *)
(* returned integer (0 for None), kind "raise" with the exception's name,  *)
(* or kind "hang" when the call's loop never ends.                         *)
(***************************************************************************)
EXTENDS Integers, Sequences, FiniteSets, TLC

\* Bounds of the model: the largest n a genome is built with, the largest
\* genome a call may produce, the largest TE_length passed to insert_te,
\* the number of identifiers after which TE_length is positive only.
MaxN == 2
MaxGenome == 4
MaxTE == 2
MaxZero == 2

VARIABLES impl, genome_list, TE_dict, nodes, call, retL, retK, pre, issued

vars == <<impl, genome_list, TE_dict, nodes, call, retL, retK, pre, issued>>

None == <<>>
head == 1

Returned(v) == [kind |-> "return", val |-> v, exc |-> ""]
Raised(e) == [kind |-> "raise", val |-> 0, exc |-> e]
Hangs == [kind |-> "hang", val |-> 0, exc |-> ""]

SetMax(S) == CHOOSE m \in S : \A x \in S : x <= m
SetMin(S) == CHOOSE m \in S : \A x \in S : m <= x

(***************************************************************************)
(* Python list primitives.                                                 *)
(***************************************************************************)
\* [c] * k : the empty list when k <= 0
Repeat(c, k) == [i \in 1..k |-> c]

\* l[i] for -len <= i < len
PyAt(l, i) == IF i < 0 THEN l[Len(l) + i + 1] ELSE l[i + 1]

PyClamp(l, i) ==
  LET j == IF i < 0 THEN i + Len(l) ELSE i
  IN IF j < 0 THEN 0 ELSE IF j > Len(l) THEN Len(l) ELSE j

\* l[a:b]
PySlice(l, a, b) ==
  LET lo == PyClamp(l, a)
      hi == PyClamp(l, b)
  IN IF hi <= lo THEN <<>> ELSE [i \in 1..(hi - lo) |-> l[lo + i]]

(***************************************************************************)
(* ListGenome                                                              *)
(***************************************************************************)
ListInit(n) == [genome_list |-> Repeat("-", n), TE_dict |-> <<>>]

ListLen(gl) == Len(gl)

ListStr(gl) == gl

\* the keys of TE_dict whose value is not None, in the dict's (insertion) order
RECURSIVE ListActiveFrom(_, _)
ListActiveFrom(td, keys) ==
  IF keys = {} THEN <<>>
  ELSE LET k == SetMin(keys)
       IN (IF td[k] # None THEN <<k>> ELSE <<>>) \o ListActiveFrom(td, keys \ {k})

ListActiveTes(td) == ListActiveFrom(td, DOMAIN td)

\* a disable_te that leaves the last site of the span as it was
ListDisableTeShort(gl, td, TE_id) ==
  IF TE_id \notin DOMAIN td
  THEN [ret |-> Returned(0), genome_list |-> gl, TE_dict |-> td]
  ELSE IF td[TE_id] = None
  THEN [ret |-> Raised("TypeError"), genome_list |-> gl, TE_dict |-> td]
  ELSE LET start == td[TE_id][1]
           end == td[TE_id][2]
           TE_length == end - start + 1
           inactive_TE == Repeat("x", TE_length - 1)
       IN [ret |-> Returned(0),
           genome_list |-> PySlice(gl, 0, start) \o inactive_TE
                             \o PySlice(gl, end, Len(gl)),
           TE_dict |-> [td EXCEPT ![TE_id] = None]]

ListDisableTe(gl, td, TE_id) ==
  IF TE_id \notin DOMAIN td
  THEN [ret |-> Returned(0), genome_list |-> gl, TE_dict |-> td]
  ELSE IF td[TE_id] = None
  THEN [ret |-> Raised("TypeError"), genome_list |-> gl, TE_dict |-> td]
  ELSE LET start == td[TE_id][1]
           end == td[TE_id][2]
           TE_length == end - start + 1
           inactive_TE == Repeat("x", TE_length)
       IN [ret |-> Returned(0),
           genome_list |-> PySlice(gl, 0, start) \o inactive_TE
                             \o PySlice(gl, end + 1, Len(gl)),
           TE_dict |-> [td EXCEPT ![TE_id] = None]]

\* the position insert_te works with after line 128
ListResolve(pos, genome_length) == (pos % genome_length) - 1

\* a collision test that misses the first site of a span
ListHitStrict(td, pos) ==
  {id \in DOMAIN td : td[id] # None /\ td[id][1] < pos /\ pos < td[id][2]}

\* the first TE of the dict that line 136 selects for disabling
ListHit(td, pos) ==
  {id \in DOMAIN td : td[id] # None /\ td[id][1] <= pos /\ pos < td[id][2]}

\* lines 153-157: the identifier the next insertion gets
ListNewId(td) == IF DOMAIN td = {} THEN 1 ELSE SetMax(DOMAIN td) + 1

\* a splice that overwrites the site after pos instead of shifting it
ListSpliceOverwrite(gl, pos, TE) ==
  PySlice(gl, 0, pos + 1) \o TE \o PySlice(gl, pos + 2, Len(gl))

\* line 141: the markers with TE put in after index pos
ListSplice(gl, pos, TE) ==
  PySlice(gl, 0, pos + 1) \o TE \o PySlice(gl, pos + 1, Len(gl))

ListInsertTe(gl, td, pos0, TE_length) ==
  IF ~(pos0 >= 1)
  THEN [ret |-> Raised("AssertionError"), genome_list |-> gl, TE_dict |-> td]
  ELSE LET TE == Repeat("A", TE_length)
           genome_length == ListLen(gl)
           pos == ListResolve(pos0, genome_length)
           collides == PyAt(gl, pos) = "A" /\ PyAt(gl, pos + 1) = "A"
           hit == ListHit(td, pos)
           d == IF collides /\ hit # {}
                THEN ListDisableTe(gl, td, SetMin(hit))
                ELSE [ret |-> Returned(0), genome_list |-> gl, TE_dict |-> td]
           gl2 == ListSplice(d.genome_list, pos, TE)
           td2 == [id \in DOMAIN d.TE_dict |->
                     IF d.TE_dict[id] # None /\ d.TE_dict[id][1] > pos
                     THEN <<d.TE_dict[id][1] + TE_length, d.TE_dict[id][2] + TE_length>>
                     ELSE d.TE_dict[id]]
           new_id == ListNewId(td2)
       IN [ret |-> Returned(new_id),
           genome_list |-> gl2,
           TE_dict |-> [id \in (DOMAIN td2) \cup {new_id} |->
                          IF id = new_id THEN <<pos + 1, pos + TE_length>>
                          ELSE td2[id]]]

\* the position copy_te hands to insert_te
ListCopyPos(start, end, offset, genome_length) ==
  IF offset > 0
  THEN IF start + offset >= genome_length
       THEN ((start + offset) % genome_length) - 1
       ELSE start + offset
  ELSE IF offset < 0
  THEN IF start - 1 <= -offset
       THEN genome_length - (-offset - start)
       ELSE start + offset - 1
  ELSE end

ListCopyTe(gl, td, TE_id, offset) ==
  IF TE_id \notin DOMAIN td
  THEN [ret |-> Raised("KeyError"), genome_list |-> gl, TE_dict |-> td]
  ELSE IF td[TE_id] = None
  THEN [ret |-> Returned(0), genome_list |-> gl, TE_dict |-> td]
  ELSE LET start == td[TE_id][1]
           end == td[TE_id][2]
           TE_length == end - start + 1
           genome_length == ListLen(gl)
       IN ListInsertTe(gl, td, ListCopyPos(start, end, offset, genome_length), TE_length)

(***************************************************************************)
(* LinkedListGenome.  nodes[i] is the i-th Link_element allocated; a link  *)
(* is a node's index, 0 is None.  TE_id and is_active exist only on the    *)
(* nodes insert_te creates (0 / FALSE stand for the missing attributes,    *)
(* which the code reads only after testing is_TE).                         *)
(***************************************************************************)
Link_element(previous, next) ==
  [next |-> next, previous |-> previous, is_TE |-> FALSE, TE_id |-> 0,
   is_active |-> FALSE]

LinkedInit(n) ==
  [i \in 1..n |-> Link_element(IF i = 1 THEN n ELSE i - 1,
                               IF i = n THEN head ELSE i + 1)]

\* the links visited by a "while not looped" traversal that starts at link
RECURSIVE Walk(_, _, _)
Walk(nd, link, fuel) ==
  IF fuel = 0 THEN <<>>
  ELSE IF nd[link].next = head THEN <<link>>
  ELSE <<link>> \o Walk(nd, nd[link].next, fuel - 1)

Chain(nd) == Walk(nd, head, Len(nd))

LinkedLen(nd) == Len(Chain(nd))

\* a __str__ that starts at head.next and so leaves out head
LinkedStrSkipsHead(nd) ==
  LET ch == Chain(nd)
  IN [i \in 1..(Len(ch) - 1) |->
        IF nd[ch[i + 1]].is_TE
        THEN IF nd[ch[i + 1]].is_active THEN "A" ELSE "x"
        ELSE "-"]

LinkedStr(nd) ==
  LET ch == Chain(nd)
  IN [i \in 1..Len(ch) |->
        IF nd[ch[i]].is_TE
        THEN IF nd[ch[i]].is_active THEN "A" ELSE "x"
        ELSE "-"]

RECURSIVE LinkedActiveFrom(_, _, _, _)
LinkedActiveFrom(nd, ch, i, last_TE_id) ==
  IF i > Len(ch) THEN <<>>
  ELSE LET link == nd[ch[i]]
       IN IF link.is_TE /\ link.TE_id # last_TE_id
          THEN (IF link.is_active THEN <<link.TE_id>> ELSE <<>>)
                 \o LinkedActiveFrom(nd, ch, i + 1, link.TE_id)
          ELSE LinkedActiveFrom(nd, ch, i + 1, last_TE_id)

LinkedActiveTes(nd) == LinkedActiveFrom(nd, Chain(nd), 1, 0)

\* a disable_te that flips is_active instead of clearing it
LinkedDisableTeToggle(nd, TE_id) ==
  LET ch == Chain(nd)
      visited == {ch[i] : i \in 1..Len(ch)}
  IN [ret |-> Returned(0),
      nodes |-> [i \in 1..Len(nd) |->
                   IF i \in visited /\ nd[i].is_TE /\ nd[i].TE_id = TE_id
                   THEN [nd[i] EXCEPT !.is_active = ~nd[i].is_active]
                   ELSE nd[i]]]

LinkedDisableTe(nd, TE_id) ==
  LET ch == Chain(nd)
      visited == {ch[i] : i \in 1..Len(ch)}
  IN [ret |-> Returned(0),
      nodes |-> [i \in 1..Len(nd) |->
                   IF i \in visited /\ nd[i].is_TE /\ nd[i].TE_id = TE_id
                   THEN [nd[i] EXCEPT !.is_active = FALSE]
                   ELSE nd[i]]]

\* the largest TE_id on the chain, 0 when there is none
LinkedMaxId(nd) ==
  LET ch == Chain(nd)
  IN SetMax({0} \cup {nd[ch[i]].TE_id : i \in {j \in 1..Len(ch) : nd[ch[j]].is_TE}})

\* link after following next k times
RECURSIVE Advance(_, _, _)
Advance(nd, link, k) ==
  IF k <= 0 THEN link ELSE Advance(nd, nd[link].next, k - 1)

\* lines 323-340: the identifier the next insertion gets
LinkedNewId(nd) == LinkedMaxId(nd) + 1

\* a walk that starts counting at 0 and so stops one node late
LinkedLocateLate(nd, pos) == Advance(nd, head, pos)

\* the node insert_te inserts after: the loop of lines 344-351 ends only
\* when pos_count, counting up from 1, meets pos
LinkedLocate(nd, pos) == Advance(nd, head, pos - 1)

\* a collision test that asks for two different TEs
LinkedCollidesOther(nd, link) ==
  /\ nd[link].is_TE
  /\ nd[nd[link].next].is_TE
  /\ nd[link].TE_id # nd[nd[link].next].TE_id

\* an insert_te without the collision test
LinkedCollidesNever(nd, link) == FALSE

\* lines 358-359
LinkedCollides(nd, link) ==
  /\ nd[link].is_TE
  /\ nd[nd[link].next].is_TE
  /\ nd[link].TE_id = nd[nd[link].next].TE_id

\* a splice whose last new node points to head instead of old_next
LinkedSpliceToHead(nd, link, TE_length, new_id) ==
  LET n0 == Len(nd)
  IN [i \in 1..(n0 + TE_length) |->
        IF i <= n0
        THEN IF i = link /\ TE_length > 0
             THEN [nd[i] EXCEPT !.next = n0 + 1]
             ELSE nd[i]
        ELSE [next |-> IF i = n0 + TE_length THEN head ELSE i + 1,
              previous |-> IF i = n0 + 1 THEN link ELSE i - 1,
              is_TE |-> TRUE, TE_id |-> new_id, is_active |-> TRUE]]

\* lines 362-379: the run of TE_length new nodes after link
LinkedSplice(nd, link, TE_length, new_id) ==
  LET old_next == nd[link].next
      n0 == Len(nd)
  IN [i \in 1..(n0 + TE_length) |->
        IF i <= n0
        THEN IF i = link /\ TE_length > 0
             THEN [nd[i] EXCEPT !.next = n0 + 1]
             ELSE nd[i]
        ELSE [next |-> IF i = n0 + TE_length THEN old_next ELSE i + 1,
              previous |-> IF i = n0 + 1 THEN link ELSE i - 1,
              is_TE |-> TRUE, TE_id |-> new_id, is_active |-> TRUE]]

\* The walk of lines 348-351 counts up from 1 and so never ends for pos < 1;
\* the loop of lines 368-377 counts up from 0 and so never ends for
\* TE_length < 0.
LinkedInsertTe(nd, pos, TE_length) ==
  IF pos < 1 \/ TE_length < 0
  THEN [ret |-> Hangs, nodes |-> nd]
  ELSE LET new_id == LinkedNewId(nd)
           link == LinkedLocate(nd, pos)
           d == IF LinkedCollides(nd, link)
                THEN LinkedDisableTe(nd, nd[link].TE_id).nodes
                ELSE nd
       IN [ret |-> Returned(new_id),
           nodes |-> LinkedSplice(d, link, TE_length, new_id)]

\* the position copy_te hands to insert_te (lines 439-453)
LinkedCopyPos(TE_start_pos, offset, genome_length) ==
  IF offset >= 0
  THEN TE_start_pos + (offset % genome_length)
  ELSE IF -offset >= TE_start_pos - 1
  THEN genome_length - (-offset - TE_start_pos)
  ELSE TE_start_pos - offset - 1

\* a copy_te without the is_active test of lines 417-424
LinkedCopyTeAnyState(nd, TE_id, offset) ==
  LET ch == Chain(nd)
      genome_length == LinkedLen(nd)
      mine == {i \in 1..Len(ch) : nd[ch[i]].is_TE /\ nd[ch[i]].TE_id = TE_id}
  IN IF mine = {}
     THEN [ret |-> Raised("TypeError"), nodes |-> nd]
     ELSE LinkedInsertTe(nd, LinkedCopyPos(SetMin(mine) - 1, offset, genome_length),
                         Cardinality(mine))

LinkedCopyTe(nd, TE_id, offset) ==
  LET ch == Chain(nd)
      genome_length == LinkedLen(nd)
      mine == {i \in 1..Len(ch) : nd[ch[i]].is_TE /\ nd[ch[i]].TE_id = TE_id}
  IN IF \E i \in mine : ~nd[ch[i]].is_active
     THEN [ret |-> Returned(0), nodes |-> nd]
     ELSE IF mine = {}
     THEN [ret |-> Raised("TypeError"), nodes |-> nd]
     ELSE LET TE_start_pos == SetMin(mine) - 1
              TE_length == Cardinality(mine)
          IN LinkedInsertTe(nd, LinkedCopyPos(TE_start_pos, offset, genome_length),
                            TE_length)

(***************************************************************************)
(* The state machine.  The program builds its genome from one of the two   *)
(* classes (lines 640-641): impl is the class chosen, or "both" when a     *)
(* ListGenome(n) and a LinkedListGenome(n) are driven side by side with    *)
(* the same calls.  The state holds the object(s), the last call made,     *)
(* what it returned from each class, and the object(s) as they were before *)
(* that call.  The fields of a class that was not built stay empty.  A     *)
(* call that hangs never returns, so no call follows it.  issued lists,    *)
(* per class, the identifiers insert_te and copy_te have returned so far.  *)
(***************************************************************************)
HasList == impl \in {"ListGenome", "both"}
HasLinked == impl \in {"LinkedListGenome", "both"}

Positions == -1..MaxGenome
Lengths == 1..MaxTE
Offsets == -MaxGenome..MaxGenome
\* every identifier issued so far and one that was never issued
Identifiers ==
  1..(SetMax(DOMAIN TE_dict \cup {0}
             \cup (IF HasLinked THEN {LinkedMaxId(nodes)} ELSE {})) + 1)

Snapshot == [genome_list |-> genome_list, TE_dict |-> TE_dict, nodes |-> nodes]

Called(op, pos, TE_length, TE_id, offset) ==
  [op |-> op, pos |-> pos, TE_length |-> TE_length, TE_id |-> TE_id,
   offset |-> offset, n |-> 0]

Construct(class, n) ==
  /\ impl = class
  /\ genome_list = IF HasList THEN ListInit(n).genome_list ELSE <<>>
  /\ TE_dict = IF HasList THEN ListInit(n).TE_dict ELSE <<>>
  /\ nodes = IF HasLinked THEN LinkedInit(n) ELSE <<>>
  /\ call = [Called("init", 0, 0, 0, 0) EXCEPT !.n = n]
  /\ retL = Returned(0)
  /\ retK = Returned(0)
  /\ pre = Snapshot
  /\ issued = [L |-> <<>>, K |-> <<>>]

Init == \E class \in {"ListGenome", "LinkedListGenome"}, n \in 1..MaxN : Construct(class, n)

InitBoth == \E n \in 1..MaxN : Construct("both", n)

\* the identifiers returned so far, with the one call c has returned
Issue(ids, c, ret) ==
  IF c.op \in {"insert_te", "copy_te"} /\ ret.kind = "return" /\ ret.val # 0
  THEN Append(ids, ret.val)
  ELSE ids

\* the state after call c, with outcome l on the list and k on the linked list
Update(l, k, c) ==
  /\ issued' = [L |-> IF HasList THEN Issue(issued.L, c, l.ret) ELSE issued.L,
                K |-> IF HasLinked THEN Issue(issued.K, c, k.ret) ELSE issued.K]
  /\ genome_list' = l.genome_list
  /\ TE_dict' = l.TE_dict
  /\ nodes' = k.nodes
  /\ retL' = l.ret
  /\ retK' = k.ret
  /\ call' = c
  /\ pre' = Snapshot
  /\ impl' = impl

\* A call is made while the genome stays within MaxGenome sites and has
\* given out fewer than MaxGenome identifiers.
Apply(l, k, c) ==
  /\ retK.kind # "hang"
  /\ Len(l.genome_list) <= MaxGenome
  /\ Len(k.nodes) <= MaxGenome
  /\ Cardinality(DOMAIN l.TE_dict) < MaxGenome
  /\ Len(Issue(issued.K, c, k.ret)) < MaxGenome
  /\ Update(l, k, c)

\* the class was not built: nothing is called on it
NoList == [ret |-> Returned(0), genome_list |-> genome_list, TE_dict |-> TE_dict]
NoLinked == [ret |-> Returned(0), nodes |-> nodes]

InsertTe(pos, TE_length) ==
  Apply(IF HasList THEN ListInsertTe(genome_list, TE_dict, pos, TE_length) ELSE NoList,
        IF HasLinked THEN LinkedInsertTe(nodes, pos, TE_length) ELSE NoLinked,
        Called("insert_te", pos, TE_length, 0, 0))

CopyTe(TE_id, offset) ==
  Apply(IF HasList THEN ListCopyTe(genome_list, TE_dict, TE_id, offset) ELSE NoList,
        IF HasLinked THEN LinkedCopyTe(nodes, TE_id, offset) ELSE NoLinked,
        Called("copy_te", 0, 0, TE_id, offset))

DisableTe(TE_id) ==
  Apply(IF HasList THEN ListDisableTe(genome_list, TE_dict, TE_id) ELSE NoList,
        IF HasLinked THEN LinkedDisableTe(nodes, TE_id) ELSE NoLinked,
        Called("disable_te", 0, 0, TE_id, 0))

Next ==
  \/ \E pos \in Positions, TE_length \in Lengths : InsertTe(pos, TE_length)
  \/ \E TE_id \in Identifiers, offset \in Offsets : CopyTe(TE_id, offset)
  \/ \E TE_id \in Identifiers : DisableTe(TE_id)

Spec == Init /\ [][Next]_vars

SpecBoth == InitBoth /\ [][Next]_vars

\* The calls of Next and insert_te with a TE_length that is not positive,
\* made while fewer than MaxZero identifiers have been given out.
NonPositive == -1..0

NextZ ==
  \/ Next
  \/ /\ Len(issued.L) < MaxZero
     /\ Len(issued.K) < MaxZero
     /\ \E pos \in Positions, TE_length \in NonPositive : InsertTe(pos, TE_length)

SpecZ == Init /\ [][NextZ]_vars

(***************************************************************************)
(* Thomas' test (lines 636-670): six calls in a fixed order on a genome of *)
(* ThomasN sites.  The script is run on every genome of 1..ThomasN sites;  *)
(* an exception or a call that never returns ends it.                      *)
(***************************************************************************)
ThomasN == 20

ThomasCalls ==
  <<Called("insert_te", 5, 10, 0, 0),
    Called("insert_te", 10, 10, 0, 0),
    Called("copy_te", 0, 0, 2, 20),
    Called("copy_te", 0, 0, 2, -15),
    Called("insert_te", 50, 10, 0, 0),
    Called("disable_te", 0, 0, 3, 0)>>

\* how many calls of the script have been made
ThomasDone ==
  IF call.op = "init" THEN 0
  ELSE CHOOSE i \in 1..Len(ThomasCalls) : ThomasCalls[i] = call

ListCall(c) ==
  CASE c.op = "insert_te" -> ListInsertTe(genome_list, TE_dict, c.pos, c.TE_length)
    [] c.op = "copy_te" -> ListCopyTe(genome_list, TE_dict, c.TE_id, c.offset)
    [] c.op = "disable_te" -> ListDisableTe(genome_list, TE_dict, c.TE_id)

LinkedCall(c) ==
  CASE c.op = "insert_te" -> LinkedInsertTe(nodes, c.pos, c.TE_length)
    [] c.op = "copy_te" -> LinkedCopyTe(nodes, c.TE_id, c.offset)
    [] c.op = "disable_te" -> LinkedDisableTe(nodes, c.TE_id)

ThomasStep ==
  /\ ThomasDone < Len(ThomasCalls)
  /\ retL.kind = "return"
  /\ retK.kind = "return"
  /\ Update(IF HasList THEN ListCall(ThomasCalls[ThomasDone + 1]) ELSE NoList,
            IF HasLinked THEN LinkedCall(ThomasCalls[ThomasDone + 1]) ELSE NoLinked,
            ThomasCalls[ThomasDone + 1])

InitThomas ==
  \E class \in {"ListGenome", "LinkedListGenome"}, n \in 1..ThomasN :
    Construct(class, n)

SpecThomas == InitThomas /\ [][ThomasStep]_vars

(***************************************************************************)
(* What the properties below speak about.                                  *)
(***************************************************************************)
ToSet(s) == {s[i] : i \in 1..Len(s)}

Ascending(s) == \A i \in 1..(Len(s) - 1) : s[i] < s[i + 1]

\* ListGenome: the identifiers with a live span, and the span's indices
ListActive(td) == {T \in DOMAIN td : td[T] # None}
ListSites(td, T) == td[T][1]..td[T][2]
ListDisabled(td) == {T \in DOMAIN td : td[T] = None}

\* LinkedListGenome: the 0-based indices of the nodes tagged T, the
\* identifiers carried by the chain, those with an active / inactive node
LinkedSites(nd, T) ==
  LET ch == Chain(nd)
  IN {i - 1 : i \in {j \in 1..Len(ch) : nd[ch[j]].is_TE /\ nd[ch[j]].TE_id = T}}
LinkedIds(nd) == {nd[i].TE_id : i \in {j \in 1..Len(nd) : nd[j].is_TE}}
LinkedActive(nd) ==
  {nd[i].TE_id : i \in {j \in 1..Len(nd) : nd[j].is_TE /\ nd[j].is_active}}
LinkedDisabled(nd) ==
  {nd[i].TE_id : i \in {j \in 1..Len(nd) : nd[j].is_TE /\ ~nd[j].is_active}}

\* the index a site of the old genome has after L sites were put in at q
Shifted(i, q, L) == IF i < q THEN i ELSE i + L

ListUnchanged ==
  /\ ListStr(genome_list) = ListStr(pre.genome_list)
  /\ ListLen(genome_list) = ListLen(pre.genome_list)
  /\ ListActiveTes(TE_dict) = ListActiveTes(pre.TE_dict)

LinkedUnchanged ==
  /\ LinkedStr(nodes) = LinkedStr(pre.nodes)
  /\ LinkedLen(nodes) = LinkedLen(pre.nodes)
  /\ LinkedActiveTes(nodes) = LinkedActiveTes(pre.nodes)

ListDid(op) == HasList /\ call.op = op
LinkedDid(op) == HasLinked /\ call.op = op

(***************************************************************************)
(* C1.  insert_te(pos, length) on a site of an ACTIVE TE T (the site at    *)
(* index pos belongs to T, T's first site included) leaves every site of T *)
(* DISABLED and T out of active_tes().  Stated for the calls that return,  *)
(* with 0 <= pos < len.                                                    *)
(***************************************************************************)
C1_InsertOnActiveSiteDisables ==
  /\ (ListDid("insert_te") /\ retL.kind = "return"
        /\ call.pos \in 0..(ListLen(pre.genome_list) - 1))
     => \A T \in ListActive(pre.TE_dict) :
          call.pos \in ListSites(pre.TE_dict, T)
          => /\ T \notin ToSet(ListActiveTes(TE_dict))
             /\ \A i \in ListSites(pre.TE_dict, T) :
                  PyAt(genome_list, Shifted(i, call.pos, call.TE_length)) = "x"
  /\ (LinkedDid("insert_te") /\ retK.kind = "return"
        /\ call.pos \in 0..(LinkedLen(pre.nodes) - 1))
     => \A T \in LinkedActive(pre.nodes) :
          call.pos \in LinkedSites(pre.nodes, T)
          => /\ T \notin ToSet(LinkedActiveTes(nodes))
             /\ T \notin LinkedActive(nodes)

(***************************************************************************)
(* C2.  insert_te(pos, length), length >= 1, returns for every integer pos *)
(* and the new TE's sites are the indices p..p+length-1, p = pos mod len.  *)
(***************************************************************************)
C2_InsertAcceptsEveryPos ==
  /\ ListDid("insert_te")
     => /\ retL.kind = "return"
        /\ LET p == call.pos % ListLen(pre.genome_list)
           IN /\ TE_dict[retL.val] = <<p, p + call.TE_length - 1>>
              /\ \A i \in p..(p + call.TE_length - 1) : PyAt(genome_list, i) = "A"
  /\ LinkedDid("insert_te")
     => /\ retK.kind = "return"
        /\ LET p == call.pos % LinkedLen(pre.nodes)
           IN LinkedSites(nodes, retK.val) = p..(p + call.TE_length - 1)

(***************************************************************************)
(* C3.  copy_te(te, offset) on an ACTIVE TE with first site start and      *)
(* length L returns a new identifier whose TE is ACTIVE, has length L and  *)
(* has its first site at (start + offset) mod len, len taken before the    *)
(* call, for every integer offset.                                         *)
(***************************************************************************)
C3_CopyLandsAtOffset ==
  /\ (ListDid("copy_te") /\ call.TE_id \in ListActive(pre.TE_dict))
     => LET start == pre.TE_dict[call.TE_id][1]
            L == pre.TE_dict[call.TE_id][2] - start + 1
            t == (start + call.offset) % ListLen(pre.genome_list)
        IN /\ retL.kind = "return"
           /\ retL.val \in ListActive(TE_dict) \ DOMAIN pre.TE_dict
           /\ TE_dict[retL.val] = <<t, t + L - 1>>
  /\ (LinkedDid("copy_te") /\ call.TE_id \in LinkedActive(pre.nodes))
     => LET start == SetMin(LinkedSites(pre.nodes, call.TE_id))
            L == Cardinality(LinkedSites(pre.nodes, call.TE_id))
            t == (start + call.offset) % LinkedLen(pre.nodes)
        IN /\ retK.kind = "return"
           /\ retK.val \in LinkedActive(nodes) \ LinkedIds(pre.nodes)
           /\ LinkedSites(nodes, retK.val) = t..(t + L - 1)

(***************************************************************************)
(* C4.  A ListGenome(n) and a LinkedListGenome(n) given the same calls     *)
(* return the same value from every call and have equal str(), len() and   *)
(* active_tes() after every call.  (SpecBoth)                              *)
(***************************************************************************)
C4_ImplementationsAgree ==
  impl = "both"
  => /\ retL = retK
     /\ ListStr(genome_list) = LinkedStr(nodes)
     /\ ListLen(genome_list) = LinkedLen(nodes)
     /\ ListActiveTes(TE_dict) = LinkedActiveTes(nodes)

(***************************************************************************)
(* C5.  disable_te(te) with te already DISABLED or never assigned raises   *)
(* nothing and leaves str(), len() and active_tes() as they were.          *)
(***************************************************************************)
C5_DisableInactiveIsNoOp ==
  /\ (ListDid("disable_te") /\ call.TE_id \notin ListActive(pre.TE_dict))
     => retL = Returned(0) /\ ListUnchanged
  /\ (LinkedDid("disable_te") /\ call.TE_id \notin LinkedActive(pre.nodes))
     => retK = Returned(0) /\ LinkedUnchanged

(***************************************************************************)
(* C6.  copy_te(te, offset) with te never assigned returns None without    *)
(* raising; str(), len() and active_tes() are unchanged and no identifier  *)
(* is issued.                                                              *)
(***************************************************************************)
C6_CopyUnknownIsNoOp ==
  /\ (ListDid("copy_te") /\ call.TE_id \notin DOMAIN pre.TE_dict)
     => retL = Returned(0) /\ ListUnchanged /\ DOMAIN TE_dict = DOMAIN pre.TE_dict
  /\ (LinkedDid("copy_te") /\ call.TE_id \notin LinkedIds(pre.nodes))
     => retK = Returned(0) /\ LinkedUnchanged /\ LinkedIds(nodes) = LinkedIds(pre.nodes)

(***************************************************************************)
(* C7.  copy_te(te, offset) with te assigned earlier and now DISABLED      *)
(* returns None and changes nothing: str(), len() and active_tes() are as  *)
(* before and the next insertion gets the identifier it would have got.    *)
(***************************************************************************)
C7_CopyDisabledIsNoOp ==
  /\ (ListDid("copy_te") /\ call.TE_id \in ListDisabled(pre.TE_dict))
     => /\ retL = Returned(0)
        /\ ListUnchanged
        /\ ListNewId(TE_dict) = ListNewId(pre.TE_dict)
  /\ (LinkedDid("copy_te") /\ call.TE_id \in LinkedDisabled(pre.nodes))
     => /\ retK = Returned(0)
        /\ LinkedUnchanged
        /\ LinkedNewId(nodes) = LinkedNewId(pre.nodes)

\* a copy of a disabled TE was asked for while another TE was active
C7_Witness ==
  \/ /\ ListDid("copy_te")
     /\ call.TE_id \in ListDisabled(pre.TE_dict)
     /\ ListActive(pre.TE_dict) # {}
  \/ /\ LinkedDid("copy_te")
     /\ call.TE_id \in LinkedDisabled(pre.nodes)
     /\ LinkedActive(pre.nodes) # {}

C9_InsertGrowsByLength ==
  /\ (ListDid("insert_te") /\ retL.kind = "return")
     => ListLen(genome_list) = ListLen(pre.genome_list) + call.TE_length
  /\ (ListDid("copy_te") /\ retL.kind = "return" /\ retL.val # 0)
     => ListLen(genome_list) = ListLen(pre.genome_list)
                                 + Cardinality(ListSites(pre.TE_dict, call.TE_id))
  /\ (LinkedDid("insert_te") /\ retK.kind = "return")
     => LinkedLen(nodes) = LinkedLen(pre.nodes) + call.TE_length
  /\ (LinkedDid("copy_te") /\ retK.kind = "return" /\ retK.val # 0)
     => LinkedLen(nodes) = LinkedLen(pre.nodes)
                             + Cardinality(LinkedSites(pre.nodes, call.TE_id))

\* an insertion returned an identifier and disabled a TE that was active
C9_Witness ==
  /\ call.op = "insert_te"
  /\ \/ /\ HasList
        /\ retL.kind = "return"
        /\ ListActive(pre.TE_dict) \ ListActive(TE_dict) # {}
     \/ /\ HasLinked
        /\ retK.kind = "return"
        /\ LinkedActive(pre.nodes) \ LinkedActive(nodes) # {}

(***************************************************************************)
(* C10.  With n = len before the call, 1 <= pos <= n-1 and length >= 1,    *)
(* insert_te(pos, length) returns a fresh identifier whose ACTIVE sites    *)
(* are exactly pos..pos+length-1; a site that was at i < pos is still at   *)
(* i, one that was at i >= pos is at i+length; the only change to the old  *)
(* sites is that the sites of at most one TE turn from ACTIVE to DISABLED; *)
(* active_tes() is the previous set less that TE plus the new identifier.  *)
(***************************************************************************)
C10_InsertShiftsSites ==
  /\ (ListDid("insert_te") /\ call.pos \in 1..(ListLen(pre.genome_list) - 1))
     => LET p == call.pos
            L == call.TE_length
            new == retL.val
            gone == ListActive(pre.TE_dict) \ ListActive(TE_dict)
            hit == UNION {ListSites(pre.TE_dict, T) : T \in gone}
        IN /\ retL.kind = "return"
           /\ new \notin DOMAIN pre.TE_dict
           /\ TE_dict[new] = <<p, p + L - 1>>
           /\ \A i \in p..(p + L - 1) : PyAt(genome_list, i) = "A"
           /\ Cardinality(gone) <= 1
           /\ ListLen(genome_list) = ListLen(pre.genome_list) + L
           /\ \A i \in 0..(ListLen(pre.genome_list) - 1) :
                PyAt(genome_list, Shifted(i, p, L))
                  = IF i \in hit THEN "x" ELSE PyAt(pre.genome_list, i)
           /\ \A T \in ListActive(TE_dict) \ {new} :
                ListSites(TE_dict, T)
                  = {Shifted(i, p, L) : i \in ListSites(pre.TE_dict, T)}
           /\ ToSet(ListActiveTes(TE_dict))
                = (ToSet(ListActiveTes(pre.TE_dict)) \ gone) \cup {new}
  /\ (LinkedDid("insert_te") /\ call.pos \in 1..(LinkedLen(pre.nodes) - 1))
     => LET p == call.pos
            L == call.TE_length
            new == retK.val
            old == Chain(pre.nodes)
            now == Chain(nodes)
            gone == LinkedActive(pre.nodes) \ LinkedActive(nodes)
        IN /\ retK.kind = "return"
           /\ new \notin LinkedIds(pre.nodes)
           /\ LinkedSites(nodes, new) = p..(p + L - 1)
           /\ \A i \in p..(p + L - 1) : PyAt(LinkedStr(nodes), i) = "A"
           /\ Cardinality(gone) <= 1
           /\ Len(now) = Len(old) + L
           /\ \A i \in 0..(Len(old) - 1) :
                LET k == PyAt(old, i)
                IN /\ PyAt(now, Shifted(i, p, L)) = k
                   /\ nodes[k].is_TE = pre.nodes[k].is_TE
                   /\ nodes[k].TE_id = pre.nodes[k].TE_id
                   /\ nodes[k].is_active
                        = (pre.nodes[k].is_active /\ nodes[k].TE_id \notin gone)
           /\ ToSet(LinkedActiveTes(nodes))
                = (ToSet(LinkedActiveTes(pre.nodes)) \ gone) \cup {new}

\* such an insertion disabled the TE it landed in
C10_Witness ==
  /\ call.op = "insert_te"
  /\ \/ /\ HasList
        /\ call.pos \in 1..(ListLen(pre.genome_list) - 1)
        /\ ListDisabled(TE_dict) \ ListDisabled(pre.TE_dict) # {}
     \/ /\ HasLinked
        /\ call.pos \in 1..(LinkedLen(pre.nodes) - 1)
        /\ LinkedDisabled(nodes) \ LinkedDisabled(pre.nodes) # {}

(***************************************************************************)
(* C11.  An identifier that has left the ACTIVE state never appears in     *)
(* active_tes() again and none of its sites is rendered 'A' again.  Stated *)
(* for every call: what was DISABLED before the call is DISABLED after it  *)
(* (pre is the state before the last call), identifiers do not vanish, and *)
(* every 'x' site is still an 'x' site, moved by the inserted run at most. *)
(***************************************************************************)
C11_DisabledIsTerminal ==
  /\ HasList
     => /\ DOMAIN pre.TE_dict \subseteq DOMAIN TE_dict
        /\ ListDisabled(pre.TE_dict) \subseteq ListDisabled(TE_dict)
        /\ ListDisabled(pre.TE_dict) \cap ToSet(ListActiveTes(TE_dict)) = {}
        /\ \E q \in 0..ListLen(pre.genome_list) :
             \A i \in 0..(ListLen(pre.genome_list) - 1) :
               PyAt(pre.genome_list, i) = "x"
               => PyAt(genome_list,
                       Shifted(i, q, ListLen(genome_list) - ListLen(pre.genome_list)))
                    = "x"
  /\ HasLinked
     => /\ LinkedIds(pre.nodes) \subseteq LinkedIds(nodes)
        /\ LinkedDisabled(pre.nodes) \cap ToSet(LinkedActiveTes(nodes)) = {}
        /\ LinkedDisabled(pre.nodes) \cap LinkedActive(nodes) = {}
        /\ \A k \in 1..Len(pre.nodes) :
             (pre.nodes[k].is_TE /\ ~pre.nodes[k].is_active)
             => /\ nodes[k].TE_id = pre.nodes[k].TE_id
                /\ \E j \in 1..LinkedLen(nodes) :
                     Chain(nodes)[j] = k /\ LinkedStr(nodes)[j] = "x"

\* a call was made on a disabled TE, or an insertion moved its sites
C11_Witness ==
  \/ /\ HasList
     /\ ListDisabled(pre.TE_dict) # {}
     /\ \/ call.op = "disable_te" /\ call.TE_id \in ListDisabled(pre.TE_dict)
        \/ call.op = "insert_te" /\ retL.kind = "return" /\ genome_list[1] = "A"
  \/ /\ HasLinked
     /\ LinkedDisabled(pre.nodes) # {}
     /\ \/ call.op = "disable_te" /\ call.TE_id \in LinkedDisabled(pre.nodes)
        \/ call.op = "insert_te" /\ retK.kind = "return" /\ call.pos = 1

(***************************************************************************)
(* C12.  The identifiers returned by successive insert_te / copy_te calls  *)
(* on one genome are 1, 2, 3, ...: the k-th identifier returned is k, so   *)
(* none is issued twice, also after TEs were disabled and after calls that *)
(* insert zero sites.  (SpecZ)                                             *)
(***************************************************************************)
C12_IdentifiersCountUp ==
  /\ \A i \in 1..Len(issued.L) : issued.L[i] = i
  /\ \A i \in 1..Len(issued.K) : issued.K[i] = i

(***************************************************************************)
(* C13.  insert_te with a length <= 0, and copy_te of a TE whose span has  *)
(* no site, is rejected: the call raises, and str(), len() and             *)
(* active_tes() are what they were before the call.  (SpecZ)               *)
(***************************************************************************)
C13_NonPositiveLengthRejected ==
  /\ (ListDid("insert_te") /\ call.TE_length <= 0)
     => (retL.kind = "raise" /\ ListUnchanged)
  /\ (ListDid("copy_te") /\ call.TE_id \in ListActive(pre.TE_dict)
        /\ ListSites(pre.TE_dict, call.TE_id) = {})
     => (retL.kind = "raise" /\ ListUnchanged)
  /\ (LinkedDid("insert_te") /\ call.TE_length <= 0)
     => (retK.kind = "raise" /\ LinkedUnchanged)

(***************************************************************************)
(* C14.  Every call terminates: insert_te, copy_te and disable_te return   *)
(* or raise for every integer argument (pos <= 0, length <= 0 and offsets  *)
(* beyond the genome length included), and the traversal of len, str and   *)
(* active_tes comes back to head.  (SpecZ)                                 *)
(***************************************************************************)
C14_EveryCallTerminates ==
  /\ HasList => retL.kind # "hang"
  /\ HasLinked
     => /\ retK.kind # "hang"
        /\ nodes[Chain(nodes)[LinkedLen(nodes)]].next = head

\* the sequence s without the element x
Without(s, x) == SelectSeq(s, LAMBDA y : y # x)

(***************************************************************************)
(* C15.  disable_te(te) on an ACTIVE TE returns, turns every site of te    *)
(* from 'A' to 'x' and changes nothing else: len is unchanged, every other *)
(* site keeps its marker and index, every other TE keeps its sites, and    *)
(* active_tes() is what it was without te.                                 *)
(***************************************************************************)
C15_DisableTurnsSitesOnly ==
  /\ (ListDid("disable_te") /\ call.TE_id \in ListActive(pre.TE_dict))
     => /\ retL = Returned(0)
        /\ ListLen(genome_list) = ListLen(pre.genome_list)
        /\ \A i \in 0..(ListLen(pre.genome_list) - 1) :
             IF i \in ListSites(pre.TE_dict, call.TE_id)
             THEN PyAt(pre.genome_list, i) = "A" /\ PyAt(genome_list, i) = "x"
             ELSE PyAt(genome_list, i) = PyAt(pre.genome_list, i)
        /\ DOMAIN TE_dict = DOMAIN pre.TE_dict
        /\ \A T \in DOMAIN TE_dict \ {call.TE_id} : TE_dict[T] = pre.TE_dict[T]
        /\ ListActiveTes(TE_dict) = Without(ListActiveTes(pre.TE_dict), call.TE_id)
        /\ call.TE_id \in ToSet(ListActiveTes(pre.TE_dict))
  /\ (LinkedDid("disable_te") /\ call.TE_id \in LinkedActive(pre.nodes))
     => /\ retK = Returned(0)
        /\ LinkedLen(nodes) = LinkedLen(pre.nodes)
        /\ Chain(nodes) = Chain(pre.nodes)
        /\ \A i \in 0..(LinkedLen(pre.nodes) - 1) :
             IF i \in LinkedSites(pre.nodes, call.TE_id)
             THEN LinkedStr(pre.nodes)[i + 1] = "A" /\ LinkedStr(nodes)[i + 1] = "x"
             ELSE LinkedStr(nodes)[i + 1] = LinkedStr(pre.nodes)[i + 1]
        /\ \A T \in LinkedIds(pre.nodes) \ {call.TE_id} :
             LinkedSites(nodes, T) = LinkedSites(pre.nodes, T)
        /\ ToSet(LinkedActiveTes(nodes)) = ToSet(LinkedActiveTes(pre.nodes)) \ {call.TE_id}
        /\ call.TE_id \in ToSet(LinkedActiveTes(pre.nodes))

\* disable_te has been called on an active TE while another TE was active
C15_Witness ==
  \/ /\ ListDid("disable_te")
     /\ call.TE_id \in ListActive(pre.TE_dict)
     /\ ListActive(TE_dict) # {}
     /\ "x" \in ToSet(ListStr(genome_list))
  \/ /\ LinkedDid("disable_te")
     /\ call.TE_id \in LinkedActive(pre.nodes)
     /\ LinkedActive(nodes) # {}
     /\ "x" \in ToSet(LinkedStr(nodes))

\* Thomas' test: the asserted str(genome), active_tes() and returned value
\* (0 where the test asserts none) after 0..6 calls of the script
ThomasStr ==
  <<Repeat("-", 20),
    Repeat("-", 5) \o Repeat("A", 10) \o Repeat("-", 15),
    Repeat("-", 5) \o Repeat("x", 5) \o Repeat("A", 10) \o Repeat("x", 5)
      \o Repeat("-", 15),
    Repeat("-", 5) \o Repeat("x", 5) \o Repeat("A", 10) \o Repeat("x", 5)
      \o Repeat("-", 5) \o Repeat("A", 10) \o Repeat("-", 10),
    Repeat("-", 5) \o Repeat("x", 5) \o Repeat("A", 10) \o Repeat("x", 5)
      \o Repeat("-", 5) \o Repeat("A", 10) \o Repeat("-", 5) \o Repeat("A", 10)
      \o Repeat("-", 5),
    Repeat("-", 5) \o Repeat("x", 5) \o Repeat("A", 10) \o Repeat("x", 5)
      \o Repeat("-", 5) \o Repeat("A", 10) \o Repeat("-", 5) \o Repeat("x", 5)
      \o Repeat("A", 10) \o Repeat("x", 5) \o Repeat("-", 5),
    Repeat("-", 5) \o Repeat("x", 5) \o Repeat("A", 10) \o Repeat("x", 5)
      \o Repeat("-", 5) \o Repeat("x", 10) \o Repeat("-", 5) \o Repeat("x", 5)
      \o Repeat("A", 10) \o Repeat("x", 5) \o Repeat("-", 5)>>

ThomasActive == <<<<>>, <<1>>, <<2>>, <<2, 3>>, <<2, 3, 4>>, <<2, 3, 5>>, <<2, 5>>>>

ThomasReturns == <<0, 1, 2, 3, 4, 5, 0>>

\* the genome before / after the last call is what the test asserts after
\* i calls of the script
ThomasWas(i) ==
  /\ HasList => /\ ListStr(pre.genome_list) = ThomasStr[i + 1]
                /\ ListActiveTes(pre.TE_dict) = ThomasActive[i + 1]
  /\ HasLinked => /\ LinkedStr(pre.nodes) = ThomasStr[i + 1]
                  /\ LinkedActiveTes(pre.nodes) = ThomasActive[i + 1]

ThomasIs(i) ==
  /\ HasList => /\ retL = Returned(ThomasReturns[i + 1])
                /\ ListStr(genome_list) = ThomasStr[i + 1]
                /\ ListActiveTes(TE_dict) = ThomasActive[i + 1]
  /\ HasLinked => /\ retK = Returned(ThomasReturns[i + 1])
                  /\ LinkedStr(nodes) = ThomasStr[i + 1]
                  /\ LinkedActiveTes(nodes) = ThomasActive[i + 1]

(***************************************************************************)
(* C16.  On a genome of 20 sites the calls insert_te(5,10),                *)
(* insert_te(10,10), copy_te(2,20), copy_te(2,-15), insert_te(50,10),      *)
(* disable_te(3) return 1, 2, 3, 4, 5 for the insertions, and after each   *)
(* call str(genome) and active_tes() are the values Thomas' test asserts:  *)
(* a call of the script made in the state asserted after i calls leaves    *)
(* the state asserted after i + 1 calls.  (SpecThomas)                     *)
(***************************************************************************)
C16_ThomasTest ==
  /\ (call.op = "init" /\ call.n = ThomasN) => ThomasIs(0)
  /\ \A i \in 1..Len(ThomasCalls) :
       (call = ThomasCalls[i] /\ ThomasWas(i - 1)) => ThomasIs(i)

\* the whole script has run on a genome of 20 sites
C16_Witness ==
  /\ call = ThomasCalls[Len(ThomasCalls)]
  /\ ThomasWas(Len(ThomasCalls) - 1)
  /\ ThomasIs(Len(ThomasCalls))
  /\ Len(issued.L) + Len(issued.K) = 5

(***************************************************************************)
(* C17.  A freshly constructed genome of size n renders as n '-' with      *)
(* active_tes() empty, and in every reachable state str(genome) has        *)
(* exactly len(genome) characters, all of them '-', 'A' or 'x'.            *)
(***************************************************************************)
C17_RenderMatchesLength ==
  /\ HasList
     => /\ call.op = "init"
           => /\ ListStr(genome_list) = Repeat("-", call.n)
              /\ ListLen(genome_list) = call.n
              /\ ListActiveTes(TE_dict) = <<>>
        /\ Len(ListStr(genome_list)) = ListLen(genome_list)
        /\ ToSet(ListStr(genome_list)) \subseteq {"-", "A", "x"}
  /\ HasLinked
     => /\ call.op = "init"
           => /\ LinkedStr(nodes) = Repeat("-", call.n)
              /\ LinkedLen(nodes) = call.n
              /\ LinkedActiveTes(nodes) = <<>>
        /\ Len(LinkedStr(nodes)) = LinkedLen(nodes)
        /\ ToSet(LinkedStr(nodes)) \subseteq {"-", "A", "x"}

\* a genome that renders all three markers
C17_Witness ==
  \/ HasList /\ ToSet(ListStr(genome_list)) = {"-", "A", "x"}
  \/ HasLinked /\ ToSet(LinkedStr(nodes)) = {"-", "A", "x"}

(***************************************************************************)
(* C18.  In LinkedListGenome the predecessor links agree with the          *)
(* successor links: for every node x reachable from head, x.next.previous  *)
(* is x; in particular head.previous is the last node of the chain.        *)
(***************************************************************************)
C18_PreviousMirrorsNext ==
  HasLinked
  => \A x \in ToSet(Chain(nodes)) : nodes[nodes[x].next].previous = x

(***************************************************************************)
(* C19.  In LinkedListGenome the next-links form a single cycle: following *)
(* next from head visits every node of the genome exactly once and then    *)
(* returns to head, and the number of nodes visited is len(genome) >= 1.   *)
(***************************************************************************)
C19_NextLinksFormOneCycle ==
  HasLinked
  => /\ LinkedLen(nodes) >= 1
     /\ LinkedLen(nodes) = Len(nodes)
     /\ Advance(nodes, head, LinkedLen(nodes)) = head
     /\ \A i \in 1..(LinkedLen(nodes) - 1) : Advance(nodes, head, i) # head
     /\ {Advance(nodes, head, i) : i \in 0..(LinkedLen(nodes) - 1)} = 1..Len(nodes)
     /\ Cardinality(ToSet(Chain(nodes))) = Len(Chain(nodes))

\* a TE has been inserted between two nodes of the chain
C19_Witness ==
  /\ LinkedDid("insert_te")
  /\ retK.kind = "return"
  /\ LinkedLen(nodes) > LinkedLen(pre.nodes)
  /\ \E x \in 1..Len(pre.nodes) :
       /\ pre.nodes[x].next # head
       /\ nodes[x].next # pre.nodes[x].next

(***************************************************************************)
(* C20.  In ListGenome the span table agrees with the marker list: every   *)
(* identifier whose TE_dict entry is not None has a span [start, end] with *)
(* 0 <= start <= end < len(genome_list) and genome_list[start..end] all    *)
(* 'A'; the spans of distinct active identifiers are disjoint; and every   *)
(* 'A' of genome_list lies inside the span of an active identifier.        *)
(***************************************************************************)
C20_SpansAgreeWithMarkers ==
  HasList
  => /\ \A T \in ListActive(TE_dict) :
          /\ 0 <= TE_dict[T][1]
          /\ TE_dict[T][1] <= TE_dict[T][2]
          /\ TE_dict[T][2] < ListLen(genome_list)
          /\ \A i \in ListSites(TE_dict, T) : PyAt(genome_list, i) = "A"
     /\ \A T \in ListActive(TE_dict), U \in ListActive(TE_dict) :
          T # U => ListSites(TE_dict, T) \cap ListSites(TE_dict, U) = {}
     /\ \A i \in 0..(ListLen(genome_list) - 1) :
          PyAt(genome_list, i) = "A"
          => \E T \in ListActive(TE_dict) : i \in ListSites(TE_dict, T)

\* two TEs are active next to the remnant of a disabled one
C20_Witness ==
  /\ HasList
  /\ Cardinality(ListActive(TE_dict)) >= 2
  /\ ListDisabled(TE_dict) # {}
  /\ "x" \in ToSet(ListStr(genome_list))

\* the set S of indices is one run lo..hi
Contiguous(S) == S # {} /\ S = SetMin(S)..SetMax(S)

(***************************************************************************)
(* C21.  With length >= 1 the sites of every ACTIVE TE form one contiguous *)
(* run of the genome that holds no site of another TE, and an insertion    *)
(* (insert_te or copy_te) whose first new site lies strictly between two   *)
(* sites of an active TE leaves that TE disabled.                          *)
(***************************************************************************)
C21_ActiveTeIsContiguous ==
  /\ HasList
     => /\ \A T \in ListActive(TE_dict) :
             /\ Contiguous(ListSites(TE_dict, T))
             /\ \A i \in ListSites(TE_dict, T) : PyAt(genome_list, i) = "A"
             /\ \A U \in ListActive(TE_dict) \ {T} :
                  ListSites(TE_dict, T) \cap ListSites(TE_dict, U) = {}
        /\ (call.op \in {"insert_te", "copy_te"} /\ retL.kind = "return"
              /\ retL.val # 0)
           => \A T \in ListActive(pre.TE_dict) :
                (/\ pre.TE_dict[T][1] < TE_dict[retL.val][1]
                 /\ TE_dict[retL.val][1] <= pre.TE_dict[T][2])
                => /\ TE_dict[T] = None
                   /\ T \notin ToSet(ListActiveTes(TE_dict))
  /\ HasLinked
     => /\ \A T \in LinkedActive(nodes) :
             /\ Contiguous(LinkedSites(nodes, T))
             /\ \A i \in LinkedSites(nodes, T) : LinkedStr(nodes)[i + 1] = "A"
        /\ (call.op \in {"insert_te", "copy_te"} /\ retK.kind = "return"
              /\ retK.val # 0)
           => \A T \in LinkedActive(pre.nodes) :
                (/\ SetMin(LinkedSites(pre.nodes, T))
                      < SetMin(LinkedSites(nodes, retK.val))
                 /\ SetMin(LinkedSites(nodes, retK.val))
                      <= SetMax(LinkedSites(pre.nodes, T)))
                => /\ T \notin LinkedActive(nodes)
                   /\ T \notin ToSet(LinkedActiveTes(nodes))

\* an insertion has landed strictly inside a TE that was active
C21_Witness ==
  \/ /\ HasList
     /\ call.op \in {"insert_te", "copy_te"}
     /\ retL.kind = "return"
     /\ retL.val # 0
     /\ \E T \in ListActive(pre.TE_dict) :
          /\ pre.TE_dict[T][1] < TE_dict[retL.val][1]
          /\ TE_dict[retL.val][1] <= pre.TE_dict[T][2]
  \/ /\ HasLinked
     /\ call.op \in {"insert_te", "copy_te"}
     /\ retK.kind = "return"
     /\ retK.val # 0
     /\ \E T \in LinkedActive(pre.nodes) :
          /\ SetMin(LinkedSites(pre.nodes, T)) < SetMin(LinkedSites(nodes, retK.val))
          /\ SetMin(LinkedSites(nodes, retK.val)) <= SetMax(LinkedSites(pre.nodes, T))

====
